---- MODULE Spec2Model ----
(***************************************************************************)
(* State-machine model of src/automator/automator.py (class Automator):    *)
(* the start-up sequence, the pub/sub listen loop, the two notification    *)
(* handlers, the channel codec and the subscription bookkeeping.           *)
(*                                                                         *)
(* Python strings are sequences of one-character strings, so that          *)
(* str.format and str.split are modelled by what they do to characters.    *)
(***************************************************************************)
EXTENDS Integers, Sequences, FiniteSets, TLC

VARIABLES
    pc,               \* position of Automator.start: "start", "on_startup",
                      \* "subscribe", "listen", or "crashed" (exception left start)
    telescope_state,  \* self.telescope_state
    daq_states,       \* self.daq_states (dict: instance -> state)
    subscribed,       \* channels of the PubSub object ps
    queue,            \* messages delivered to ps and not yet yielded by ps.listen()
    tel,              \* actual telescope state, as Interface.telescope_state reports it
    queried,          \* result of the telescope_state query of the latest antenna handling
    last,             \* locals and calls of the latest step of start (see NoStep);
                      \* prior and previous_query are telescope_state and
                      \* queried as they were before the step
    cc_channel,       \* codec harness: the channel string given to parse_instance
    cc_result         \* codec harness: what parse_instance returned for it

automator == <<pc, telescope_state, daq_states, subscribed>>
codec     == <<cc_channel, cc_result>>
vars      == <<pc, telescope_state, daq_states, subscribed, queue, tel,
               queried, last, cc_channel, cc_result>>

----------------------------------------------------------------------------
(* Bounds *)

MaxQueue == 2

----------------------------------------------------------------------------
(* Python values *)

\* Python's None; not a sequence of characters, so it differs from every str
None == <<"None">>

\* str.find: 1-based index of the first occurrence of sep in s, 0 if absent
Find(s, sep) ==
    LET hits == {k \in 1..(Len(s) - Len(sep) + 1) :
                    SubSeq(s, k, k + Len(sep) - 1) = sep}
    IN  IF hits = {} THEN 0
        ELSE CHOOSE k \in hits : \A j \in hits : k <= j

\* s.split(sep, maxsplit); maxsplit = -1 means no limit
RECURSIVE split(_, _, _)
split(s, sep, maxsplit) ==
    LET k == Find(s, sep)
    IN  IF k = 0 \/ maxsplit = 0 THEN <<s>>
        ELSE <<SubSeq(s, 1, k - 1)>> \o
             split(SubSeq(s, k + Len(sep), Len(s)), sep,
                   IF maxsplit < 0 THEN maxsplit ELSE maxsplit - 1)

----------------------------------------------------------------------------
(* Configuration given to Automator.__init__ *)

antenna_hash_key == <<"A","N","T">>
daq_domain       == <<"h","p">>
\* self.instances, names of the form host/index
instances        == << <<"n","/","0">>, <<"n","/","1">> >>
Instances        == {instances[k] : k \in 1..Len(instances)}

TelescopeStates == {"on_source", "off_source", "unknown"}
RecordStates    == {"recording", "idle", "armed", "unknown"}

\* lists without repetition over S, in any order
Lists(S) ==
    {l \in UNION {[1..n -> S] : n \in 0..Cardinality(S)} :
        \A i, j \in 1..Len(l) : i # j => l[i] # l[j]}

Range(l) == {l[k] : k \in 1..Len(l)}

\* the lists an interface call can return: known instances, each at most once
InstanceLists == Lists(Instances)

----------------------------------------------------------------------------
(* Channel codec *)

\* '{}://{}/status'.format(domain, instance)
instance_channel(domain, instance) ==
    domain \o <<":","/","/">> \o instance \o <<"/","s","t","a","t","u","s">>

\* '__keyspace@0__:{}'.format(key)
keyspace(key) ==
    <<"_","_","k","e","y","s","p","a","c","e","@","0","_","_",":">> \o key

\* updated_key['channel'].split(':', 1)[1]
updated_channel(ch) == split(ch, <<":">>, 1)[2]

\* parse_instance without line 135: the '/status' suffix is not stripped
parse_instance_keeps_suffix(channel) ==
    LET parts == split(channel, <<":","/","/">>, 1)
    IN  IF Len(parts) < 2 THEN None
        ELSE IF parts[2] \in Instances THEN parts[2] ELSE None

\* channel.split('://', 1)[1]; an IndexError is caught and gives None
parse_instance(channel) ==
    LET parts == split(channel, <<":","/","/">>, 1)
    IN  IF Len(parts) < 2 THEN None
        ELSE LET instance == split(parts[2], <<"/","s","t","a","t","u","s">>, -1)[1]
             IN  IF instance \in Instances THEN instance ELSE None

----------------------------------------------------------------------------
(* Pub/sub transport *)

antenna_channel == keyspace(antenna_hash_key)

\* a message yielded by ps.listen(): updated_key['channel'], updated_key['data']
Message(ch, data) == [channel |-> ch, data |-> data]

\* instances whose status channel ps is subscribed to
SubscribedInstances ==
    {i \in Instances : keyspace(instance_channel(daq_domain, i)) \in subscribed}

----------------------------------------------------------------------------
(* What the latest step of start did: the handler's locals and, in order,  *)
(* the calls it made on the interface, on ps and on process.               *)

NoStep ==
    [op |-> "none", channel |-> None, instance |-> None,
     old_state |-> "none", new_state |-> "none", telescope_state |-> "none",
     prior |-> "none", previous_query |-> "none",
     recording |-> <<>>, rec_instances |-> <<>>, calls |-> <<>>,
     raised |-> FALSE]

Call(name, arg) == <<name, arg>>

CallsOf(name, args) == [k \in 1..Len(args) |-> Call(name, args[k])]

Count(calls, name) == Cardinality({k \in 1..Len(calls) : calls[k][1] = name})

----------------------------------------------------------------------------
(* Subscription bookkeeping *)

\* subscribe_instances: ps.subscribe for each instance of the list
subscribe_instances(domain, insts, subs) ==
    subs \cup {keyspace(instance_channel(domain, insts[k])) : k \in 1..Len(insts)}

\* self.daq_states.pop(instance): KeyError when the key is absent
pop_raises(ds, instance) == instance \notin DOMAIN ds

\* unsubscribe_instances without line 222: the entry stays in the dict
pop_keeps_entry(ds, instance) == ds

pop(ds, instance) == [i \in (DOMAIN ds) \ {instance} |-> ds[i]]

\* unsubscribe_instances: for each instance, ps.unsubscribe then pop; the loop
\* stops at the first KeyError, keeping what was done before it
RECURSIVE unsubscribe_instances(_, _, _, _)
unsubscribe_instances(domain, insts, subs, ds) ==
    IF insts = <<>> THEN [subscribed |-> subs, daq_states |-> ds, raised |-> FALSE]
    ELSE LET instance == Head(insts)
             subs1 == subs \ {keyspace(instance_channel(domain, instance))}
         IN  IF pop_raises(ds, instance)
             THEN [subscribed |-> subs1, daq_states |-> ds, raised |-> TRUE]
             ELSE unsubscribe_instances(domain, Tail(insts), subs1, pop(ds, instance))

\* the calls unsubscribe_instances makes on ps, up to and including the one
\* whose pop raised
RECURSIVE unsubscribe_calls(_, _)
unsubscribe_calls(insts, ds) ==
    IF insts = <<>> THEN <<>>
    ELSE <<Call("unsubscribe", Head(insts))>> \o
         (IF pop_raises(ds, Head(insts)) THEN <<>>
          ELSE unsubscribe_calls(Tail(insts), pop(ds, Head(insts))))

\* self.daq_states[instance] = state
set_state(ds, instance, state) ==
    [i \in (DOMAIN ds) \cup {instance} |-> IF i = instance THEN state ELSE ds[i]]

\* the value telescope_on_source stores for each instance it subscribed
on_source_state == "record"

\* for instance in rec_instances: self.daq_states[instance] = 'record'
RECURSIVE set_states(_, _, _)
set_states(ds, insts, state) ==
    IF insts = <<>> THEN ds
    ELSE set_states(set_state(ds, Head(insts), state), Tail(insts), state)

----------------------------------------------------------------------------
(* telescope_on_source, for a given answer of record_conditional *)

on_source_subscribed(rec_instances, subs) ==
    IF Len(rec_instances) > 0
    THEN subscribe_instances(daq_domain, rec_instances, subs)
    ELSE subs

on_source_daq_states(rec_instances, ds) ==
    IF Len(rec_instances) > 0
    THEN set_states(ds, rec_instances, on_source_state)
    ELSE ds

on_source_calls(rec_instances) ==
    <<Call("src_name", None), Call("record_conditional", None)>> \o
    CallsOf("subscribe", rec_instances)

----------------------------------------------------------------------------
(* Initial state: after Automator.__init__, before start *)

Pending == <<"pending">>

Init ==
    /\ pc = "start"
    /\ telescope_state = "unknown"
    /\ daq_states = <<>>
    /\ subscribed = {}
    /\ queue = <<>>
    /\ tel \in TelescopeStates
    /\ queried = "none"
    /\ last = NoStep
    /\ cc_channel = <<>>
    /\ cc_result = Pending

----------------------------------------------------------------------------
(* Automator.start, up to the listen loop *)

\* lines 65-70: create ps, query the telescope state and store it
StartQuery ==
    /\ pc = "start"
    /\ telescope_state' = tel
    /\ pc' = "on_startup"
    /\ last' = [NoStep EXCEPT !.op = "start", !.telescope_state = tel,
                              !.calls = <<Call("telescope_state", None)>>]
    /\ UNCHANGED <<daq_states, subscribed, queue, tel, queried, codec>>

\* lines 71-72: the start-up on-source action
StartOnSource ==
    /\ pc = "on_startup"
    /\ pc' = "subscribe"
    /\ IF telescope_state = "on_source"
       THEN \E rec_instances \in InstanceLists :
               /\ subscribed' = on_source_subscribed(rec_instances, subscribed)
               /\ daq_states' = on_source_daq_states(rec_instances, daq_states)
               /\ last' = [NoStep EXCEPT !.op = "start_on_source",
                                         !.rec_instances = rec_instances,
                                         !.calls = on_source_calls(rec_instances)]
       ELSE /\ UNCHANGED <<subscribed, daq_states>>
            /\ last' = [NoStep EXCEPT !.op = "start_skip"]
    /\ UNCHANGED <<telescope_state, queue, tel, queried, codec>>

\* line 77: subscribe to the antenna hash
StartListen ==
    /\ pc = "subscribe"
    /\ subscribed' = subscribed \cup {antenna_channel}
    /\ pc' = "listen"
    /\ last' = [NoStep EXCEPT !.op = "listen",
                              !.calls = <<Call("subscribe", antenna_hash_key)>>]
    /\ UNCHANGED <<telescope_state, daq_states, queue, tel, queried, codec>>

----------------------------------------------------------------------------
(* telescope_state_change *)

\* telescope_state_change without the early return of lines 160-161
state_unchanged_never(new, old) == FALSE

\* line 160 also returning early when the interface answers 'unknown'
state_unchanged_or_unknown(new, old) == new = old \/ new = "unknown"

\* line 160: telescope state has not changed from prior state
state_unchanged(new, old) == new = old

\* telescope_off_source without the test of line 178
any_recording_unchecked(recording) == TRUE

\* line 178: len(recording) > 0
any_recording(recording) == Len(recording) > 0

\* telescope_off_source, for a given 'recording' list of Interface.daq_states
TelescopeOffSource(recording, step) ==
    IF any_recording(recording)
    THEN LET u == unsubscribe_instances(daq_domain, recording, subscribed, daq_states)
         IN  /\ subscribed' = u.subscribed
             /\ daq_states' = u.daq_states
             /\ pc' = IF u.raised THEN "crashed" ELSE pc
             /\ last' = [step EXCEPT
                   !.recording = recording,
                   !.raised = u.raised,
                   !.calls = @ \o <<Call("daq_states", None),
                                    Call("stop_recording", None)>>
                               \o unsubscribe_calls(recording, daq_states)
                               \o (IF u.raised THEN <<>>
                                   ELSE <<Call("process", None)>>)]
    ELSE /\ UNCHANGED <<subscribed, daq_states, pc>>
         /\ last' = [step EXCEPT !.recording = recording,
                                 !.calls = @ \o <<Call("daq_states", None)>>]

\* telescope_on_source, for a given answer of record_conditional
TelescopeOnSource(rec_instances, step) ==
    /\ subscribed' = on_source_subscribed(rec_instances, subscribed)
    /\ daq_states' = on_source_daq_states(rec_instances, daq_states)
    /\ pc' = pc
    /\ last' = [step EXCEPT !.rec_instances = rec_instances,
                            !.calls = @ \o on_source_calls(rec_instances)]

telescope_state_change(step) ==
    LET new  == tel
        this == [step EXCEPT !.op = "antenna", !.telescope_state = new,
                             !.prior = telescope_state,
                             !.previous_query = queried,
                             !.calls = <<Call("telescope_state", None)>>]
    IN  /\ queried' = new
        /\ IF state_unchanged(new, telescope_state)
           THEN /\ last' = this
                /\ UNCHANGED automator
           ELSE /\ telescope_state' = new
                /\ CASE new = "off_source" ->
                          \E recording \in InstanceLists :
                              TelescopeOffSource(recording, this)
                     [] new = "on_source" ->
                          \E rec_instances \in InstanceLists :
                              TelescopeOnSource(rec_instances, this)
                     [] OTHER ->
                          /\ last' = this
                          /\ UNCHANGED <<subscribed, daq_states, pc>>

----------------------------------------------------------------------------
(* recording_state_change *)

\* self.daq_states.get(instance, 'unknown')
get_state(ds, instance) ==
    IF instance \in DOMAIN ds THEN ds[instance] ELSE "unknown"

\* line 107: the map after the queried state is stored
updated_states(ds, instance, new_state) == set_state(ds, instance, new_state)

\* line 117 testing for idle only: recording -> armed is not a finish
finished_recording_idle_only(old_state, new_state) ==
    old_state = "recording" /\ new_state = "idle"

\* line 117: DAQ has finished recording
finished_recording(old_state, new_state) ==
    old_state = "recording" /\ new_state # "recording"

recording_state_change(channel, step) ==
    LET instance == parse_instance(channel)
        this     == [step EXCEPT !.op = "instance", !.channel = channel,
                                 !.instance = instance]
    IN  /\ UNCHANGED <<telescope_state, queried>>
        /\ IF instance = None
           THEN /\ last' = this
                /\ UNCHANGED <<daq_states, subscribed, pc>>
           ELSE \E new_state \in RecordStates :
                  LET old_state == get_state(daq_states, instance)
                      ds1       == updated_states(daq_states, instance, new_state)
                      that      == [this EXCEPT
                                      !.old_state = old_state,
                                      !.new_state = new_state,
                                      !.calls = <<Call("daq_record_state", instance)>>]
                  IN  IF new_state = "unknown"
                      THEN /\ daq_states' = ds1
                           /\ last' = that
                           /\ UNCHANGED <<subscribed, pc>>
                      ELSE IF finished_recording(old_state, new_state)
                      THEN LET u == unsubscribe_instances(daq_domain, <<instance>>,
                                                          subscribed, ds1)
                           IN  /\ subscribed' = u.subscribed
                               /\ daq_states' = u.daq_states
                               /\ pc' = IF u.raised THEN "crashed" ELSE pc
                               /\ last' = [that EXCEPT
                                     !.raised = u.raised,
                                     !.calls = @ \o unsubscribe_calls(<<instance>>, ds1)
                                                 \o (IF u.raised THEN <<>>
                                                     ELSE <<Call("process", None)>>)]
                      ELSE /\ daq_states' = ds1
                           /\ last' = that
                           /\ UNCHANGED <<subscribed, pc>>

----------------------------------------------------------------------------
(* The listen loop, lines 80-93: one message per step *)

\* the loop body for one message yielded by ps.listen()
Dispatch(msg) ==
    IF msg.data = "hset"
    THEN \E channel \in {updated_channel(msg.channel)} :
             IF channel = antenna_hash_key
             THEN telescope_state_change(NoStep)
             ELSE recording_state_change(channel, NoStep)
    ELSE /\ last' = [NoStep EXCEPT !.op = "skip"]
         /\ UNCHANGED <<automator, queried>>

Listen ==
    /\ pc = "listen"
    /\ queue # <<>>
    /\ queue' = Tail(queue)
    /\ \E updated_key \in {Head(queue)} : Dispatch(updated_key)
    /\ UNCHANGED <<tel, codec>>

----------------------------------------------------------------------------
(* Environment: the telescope, the DAQ status hashes and the Redis server  *)

\* the antenna hash is written (hset); the telescope state it encodes may or
\* may not change; the notification reaches ps only if ps is subscribed
AntennaUpdate(s) ==
    /\ tel' = s
    /\ IF antenna_channel \in subscribed
       THEN /\ Len(queue) < MaxQueue
            /\ queue' = Append(queue, Message(antenna_channel, "hset"))
       ELSE /\ s # tel
            /\ UNCHANGED queue
    /\ last' = NoStep
    /\ UNCHANGED <<automator, queried, codec>>

\* the status hash of an instance is written (hset)
InstanceUpdate(i) ==
    /\ keyspace(instance_channel(daq_domain, i)) \in subscribed
    /\ Len(queue) < MaxQueue
    /\ queue' = Append(queue, Message(keyspace(instance_channel(daq_domain, i)), "hset"))
    /\ last' = NoStep
    /\ UNCHANGED <<automator, tel, queried, codec>>

\* another keyspace event (here hdel) on a subscribed key
OtherEvent(ch) ==
    /\ ch \in subscribed
    /\ Len(queue) < MaxQueue
    /\ queue' = Append(queue, Message(ch, "hdel"))
    /\ last' = NoStep
    /\ UNCHANGED <<automator, tel, queried, codec>>

Environment ==
    \/ \E s \in TelescopeStates : AntennaUpdate(s)
    \/ \E i \in Instances : InstanceUpdate(i)
    \/ \E ch \in subscribed : OtherEvent(ch)

Next ==
    \/ StartQuery
    \/ StartOnSource
    \/ StartListen
    \/ Listen
    \/ Environment

Spec == Init /\ [][Next]_vars

\* start runs on, and every message in the queue is eventually yielded by
\* ps.listen()
FairSpec == Spec /\ WF_vars(StartQuery) /\ WF_vars(StartOnSource)
                 /\ WF_vars(StartListen) /\ WF_vars(Listen)

----------------------------------------------------------------------------------------------------------------------------------------
(* The handlers driven directly: after start-up the loop body is run on    *)
(* one message at a time, whatever its channel, without the server's       *)
(* subscription filter in between (as a test of the handlers does).        *)

InjectChannels ==
    { antenna_hash_key,
      <<"f","o","o",":","/","/","b","a","r","/","s","t","a","t","u","s">>,
      instance_channel(daq_domain, <<"n","/","9">>),
      daq_domain \o <<":","/","/">> \o instances[1],
      instance_channel(daq_domain, instances[2]) \o <<"/","x">>,
      <<"n","/","0","/","s","t","a","t","u","s">>,
      instance_channel(daq_domain, instances[1]),
      instance_channel(daq_domain, instances[2]) }

Inject(ch) ==
    /\ pc = "listen"
    /\ Dispatch(Message(keyspace(ch), "hset"))
    /\ UNCHANGED <<queue, tel, codec>>

\* the telescope moves; nothing is queued
TelescopeMoves(s) ==
    /\ s # tel
    /\ tel' = s
    /\ last' = NoStep
    /\ UNCHANGED <<automator, queue, queried, codec>>

InjectNext ==
    \/ StartQuery
    \/ StartOnSource
    \/ StartListen
    \/ \E s \in TelescopeStates : TelescopeMoves(s)
    \/ \E ch \in InjectChannels : Inject(ch)

SpecInject == Init /\ [][InjectNext]_vars

----------------
(* Codec harness: parse_instance applied to channel strings, those built   *)
(* by subscribe_instances and read back by the loop, and arbitrary ones.   *)

TestDomains  == {daq_domain, <<"f","o","o">>, <<>>}
TestSeps     == {<<":","/","/">>, <<":","/">>, <<>>}
TestIds      == Instances \cup {<<"n","/","9">>, <<"n">>, <<"b","a","r">>, <<>>}
TestSuffixes == {<<"/","s","t","a","t","u","s">>, <<"/","s","t","a","t","u">>,
                 <<"/","s","t","a","t","u","s","/","x">>, <<>>}

TestChannels ==
    {d \o sep \o id \o suf :
        d \in TestDomains, sep \in TestSeps, id \in TestIds, suf \in TestSuffixes}

CodecInit ==
    /\ pc = "start"
    /\ telescope_state = "unknown"
    /\ daq_states = <<>>
    /\ subscribed = {}
    /\ queue = <<>>
    /\ tel = "unknown"
    /\ queried = "none"
    /\ last = NoStep
    /\ cc_channel \in TestChannels
    /\ cc_result = Pending

\* the channel as subscribe_instances builds it and the loop reads it back
CodecEncode(domain, instance) ==
    /\ cc_channel' = updated_channel(keyspace(instance_channel(domain, instance)))
    /\ cc_result' = Pending
    /\ UNCHANGED <<automator, queue, tel, queried, last>>

CodecParse ==
    /\ cc_result = Pending
    /\ cc_result' = parse_instance(cc_channel)
    /\ UNCHANGED <<cc_channel, automator, queue, tel, queried, last>>

CodecNext ==
    \/ \E d \in TestDomains, i \in TestIds : CodecEncode(d, i)
    \/ CodecParse

SpecCodec == CodecInit /\ [][CodecNext]_vars

----------------------------------------------------------------------------
(* Vocabulary of the properties *)

IsPrefix(pre, s) == Len(s) >= Len(pre) /\ SubSeq(s, 1, Len(pre)) = pre

IsSuffix(suf, s) ==
    Len(s) >= Len(suf) /\ SubSeq(s, Len(s) - Len(suf) + 1, Len(s)) = suf

\* positions k at which ch reads  <domain> :// <identifier> /status
ShapeSplits(ch) ==
    {k \in 1..(Len(ch) - 10) :
        /\ SubSeq(ch, k, k + 2) = <<":","/","/">>
        /\ IsSuffix(<<"/","s","t","a","t","u","s">>, ch)}

\* ch has the shape domain://instance/status
HasShape(ch) == ShapeSplits(ch) # {}

\* the identifier a channel of that shape names
NamedInstance(ch) ==
    LET k == CHOOSE k \in ShapeSplits(ch) : \A j \in ShapeSplits(ch) : k <= j
    IN  SubSeq(ch, k + 3, Len(ch) - 7)

\* ch has the shape, under a domain other than the configured one
ForeignDomain(ch) ==
    HasShape(ch) /\ ~IsPrefix(daq_domain \o <<":","/","/">>, ch)

\* the step just taken ran the on-source action
RanOnSource(step) ==
    /\ step.op \in {"start_on_source", "antenna"}
    /\ Count(step.calls, "record_conditional") = 1

\* subscription and stored state of instance i are the same before and after
InstanceUntouched(i) ==
    /\ (i \in SubscribedInstances') = (i \in SubscribedInstances)
    /\ (i \in DOMAIN daq_states') = (i \in DOMAIN daq_states)
    /\ i \in DOMAIN daq_states => daq_states'[i] = daq_states[i]

----------------------------------------------------------------------------
(* C1 *)

\* C1: once started, and after every handled notification, the instances
\* whose status channel is subscribed are exactly the keys of daq_states.
C1_SubscribedIffWatched ==
    pc = "listen" => SubscribedInstances = DOMAIN daq_states

----------------------------------------------------------------------------
(* C2 *)

\* C2: whenever the on-source action runs, every instance returned by
\* record_conditional becomes subscribed with stored state "recording", and
\* the instances not returned keep their subscription and state.
C2_OnSourceStoresRecording ==
    [][RanOnSource(last') =>
         /\ \A i \in Range(last'.rec_instances) :
               /\ i \in SubscribedInstances'
               /\ i \in DOMAIN daq_states'
               /\ daq_states'[i] = "recording"
         /\ \A i \in Instances \ Range(last'.rec_instances) :
               InstanceUntouched(i)]_vars

----------------------------------------------------------------------------
(* C3 *)

\* C3: an antenna notification that reveals on_source -> off_source while
\* the instances reported recording are the watched ones (at least one)
\* calls stop_recording exactly once, unsubscribes each of them and leaves
\* daq_states empty.
C3_OffSourceStopsAll ==
    [][(/\ last'.op = "antenna"
        /\ telescope_state = "on_source"
        /\ last'.telescope_state = "off_source"
        /\ DOMAIN daq_states # {}
        /\ Range(last'.recording) = DOMAIN daq_states)
       =>
       (/\ Count(last'.calls, "stop_recording") = 1
        /\ \A i \in DOMAIN daq_states :
              /\ Count(SelectSeq(last'.calls, LAMBDA c : c[2] = i), "unsubscribe") = 1
              /\ i \notin SubscribedInstances'
        /\ SubscribedInstances' = {}
        /\ daq_states' = <<>>
        /\ pc' = "listen")]_vars

\* both instances were watched and recording when the telescope left the source
C3_Witness ==
    /\ last.op = "antenna"
    /\ last.prior = "on_source"
    /\ last.telescope_state = "off_source"
    /\ Range(last.recording) = Instances
    /\ Count(last.calls, "unsubscribe") = 2
    /\ Count(last.calls, "stop_recording") = 1
    /\ ~last.raised
    /\ daq_states = <<>>

----------------------------------------------------------------------------
(* C4 *)

\* C4: an instance notification for X with stored state "recording" and
\* queried state idle or armed unsubscribes X and removes it from daq_states,
\* and leaves every other instance's subscription and stored state as is.
C4_FinishedInstanceOnly ==
    [][(/\ last'.op = "instance"
        /\ last'.instance \in DOMAIN daq_states
        /\ daq_states[last'.instance] = "recording"
        /\ last'.new_state \in {"idle", "armed"})
       =>
       (/\ last'.instance \notin SubscribedInstances'
        /\ last'.instance \notin DOMAIN daq_states'
        /\ \A j \in Instances \ {last'.instance} : InstanceUntouched(j)
        /\ (antenna_channel \in subscribed') = (antenna_channel \in subscribed))]_vars

\* X finished (armed after recording) while another instance is still
\* recording and subscribed
C4_Witness ==
    /\ last.op = "instance"
    /\ last.old_state = "recording"
    /\ last.new_state = "armed"
    /\ last.instance \notin DOMAIN daq_states
    /\ last.instance \notin SubscribedInstances
    /\ \E j \in Instances \ {last.instance} :
          /\ j \in SubscribedInstances
          /\ j \in DOMAIN daq_states
          /\ daq_states[j] = "recording"

----------------------------------------------------------------------------
(* C5 *)

\* C5: when daq_record_state returns "unknown", the handler leaves daq_states
\* and the subscriptions as they were and does nothing but the query.
C5_UnknownPreservesState ==
    [][(last'.op = "instance" /\ last'.new_state = "unknown")
       =>
       (/\ daq_states' = daq_states
        /\ subscribed' = subscribed
        /\ last'.calls = <<Call("daq_record_state", last'.instance)>>)]_vars

----------------------------------------------------------------------------
(* C6 *)

\* C6: a notification whose channel is not the antenna key and either lacks
\* the shape domain://instance/status or names an instance outside the known
\* list is ignored: no error, no interface call, no change of
\* telescope_state, daq_states or the subscriptions.
C6_OtherChannelsIgnored ==
    [][(/\ last'.op = "instance"
        /\ (~HasShape(last'.channel) \/ NamedInstance(last'.channel) \notin Instances))
       =>
       (/\ ~last'.raised
        /\ last'.calls = <<>>
        /\ UNCHANGED <<telescope_state, daq_states, subscribed, pc>>)]_vars

----------------------------------------------------------------------------
(* C7 *)

\* C7: no failure while handling a notification terminates the listen loop:
\* after every step the loop is still there to take the next notification.
C7_LoopSurvives ==
    [][pc = "listen" => pc' = "listen"]_vars

----------------------------------------------------------------------------
(* C8 *)

\* C8: for every known instance, parse_instance of the channel built by
\* subscribe_instances for the configured domain returns that instance.
C8_CodecRoundTrip ==
    \A i \in Instances :
        (cc_result # Pending /\ cc_channel = instance_channel(daq_domain, i))
            => cc_result = i

C8_Witness ==
    /\ cc_channel = instance_channel(daq_domain, instances[2])
    /\ cc_result = instances[2]

----------------------------------------------------------------------------
(* C9 *)

\* C9: parse_instance returns None for every channel that is malformed or
\* carries a domain other than the configured one, whatever it names.
C9_ForeignOrMalformedIsNone ==
    (cc_result # Pending /\ (~HasShape(cc_channel) \/ ForeignDomain(cc_channel)))
        => cc_result = None

----------------------------------------------------------------------------
(* C10 *)

\* C10: an antenna notification whose telescope_state query returns what the
\* previous antenna notification's query returned makes no call but the
\* query and changes neither telescope_state, daq_states nor subscriptions.
C10_AntennaIdempotent ==
    [][(/\ last'.op = "antenna"
        /\ queried # "none"
        /\ last'.telescope_state = queried)
       =>
       (/\ last'.calls = <<Call("telescope_state", None)>>
        /\ UNCHANGED <<telescope_state, daq_states, subscribed, pc>>)]_vars

\* two antenna notifications in a row found the telescope on_source
C10_Witness ==
    /\ last.op = "antenna"
    /\ last.previous_query = "on_source"
    /\ last.telescope_state = "on_source"
    /\ last.calls = <<Call("telescope_state", None)>>

----------------------------------------------------------------------------
(* C11 *)

\* C11: every value stored in daq_states is one of unknown, idle, armed,
\* recording.
C11_StoredStatesEnumerated ==
    \A i \in DOMAIN daq_states : daq_states[i] \in RecordStates

----------------------------------------------------------------------------
(* C12 *)

\* C12: from the moment the start-up on-source action can run, and for as
\* long as notifications are received or handled, the antenna-hash channel
\* is subscribed.
C12_AntennaAlwaysSubscribed ==
    pc \in {"on_startup", "subscribe", "listen"} => antenna_channel \in subscribed

----------------------------------------------------------------------------
(* C13 *)

\* C13: when the stored state of X is the one the on-source action gave it
\* and an instance notification for X finds it idle or armed, X is
\* unsubscribed, removed from daq_states, and process is called.
C13_FirstNotificationFinishes ==
    [][(/\ last'.op = "instance"
        /\ last'.instance \in DOMAIN daq_states
        /\ last'.instance \in SubscribedInstances
        /\ daq_states[last'.instance] = on_source_state
        /\ last'.new_state \in {"idle", "armed"})
       =>
       (/\ last'.instance \notin SubscribedInstances'
        /\ last'.instance \notin DOMAIN daq_states'
        /\ Count(last'.calls, "process") = 1)]_vars

----------------------------------------------------------------------------
(* C14 *)

\* the step just taken handled an antenna notification that changed the
\* stored telescope state to off_source
TurnedOffSource ==
    /\ last'.op = "antenna"
    /\ telescope_state # "off_source"
    /\ last'.telescope_state = "off_source"

\* C14: stop_recording is called (once) exactly in the steps that handle a
\* change to off_source with a non-empty 'recording' answer of daq_states;
\* with an empty answer the handler does nothing after the two queries.
C14_StopOnlyWhenRecording ==
    [][/\ (Count(last'.calls, "stop_recording") > 0)
            = (TurnedOffSource /\ Len(last'.recording) > 0)
       /\ Count(last'.calls, "stop_recording") <= 1
       /\ (TurnedOffSource /\ Len(last'.recording) = 0) =>
            /\ last'.calls = <<Call("telescope_state", None), Call("daq_states", None)>>
            /\ UNCHANGED <<subscribed, daq_states, pc>>]_vars

\* the telescope left the source and nothing was reported recording, while
\* an instance was still watched
C14_Witness ==
    /\ last.op = "antenna"
    /\ last.prior = "on_source"
    /\ last.telescope_state = "off_source"
    /\ last.recording = <<>>
    /\ Count(last.calls, "stop_recording") = 0
    /\ Count(last.calls, "daq_states") = 1
    /\ SubscribedInstances # {}

----------------------------------------------------------------------------
(* C15 *)

\* the step just taken stopped a recording: an instance went from recording
\* to idle or armed, or the telescope went off source with instances recording
StoppedRecording ==
    \/ /\ last'.op = "instance"
       /\ last'.instance \in DOMAIN daq_states
       /\ daq_states[last'.instance] = "recording"
       /\ last'.new_state \in {"idle", "armed"}
    \/ /\ TurnedOffSource
       /\ Len(last'.recording) > 0

\* C15: process is called exactly once in every step that stops a recording,
\* as the last call, after the unsubscribes, and in no other step.
C15_ProcessOncePerStop ==
    [][/\ StoppedRecording =>
            /\ Count(last'.calls, "process") = 1
            /\ last'.calls[Len(last'.calls)] = Call("process", None)
            /\ Count(last'.calls, "unsubscribe") > 0
       /\ ~StoppedRecording => Count(last'.calls, "process") = 0]_vars

----------------------------------------------------------------------------
(* C16 *)

\* C16: handling an instance notification (or skipping a message) leaves
\* telescope_state alone; after handling an antenna notification,
\* telescope_state is what the telescope_state query returned.
C16_TelescopeStateWrites ==
    [][/\ last'.op \in {"instance", "skip"} => telescope_state' = telescope_state
       /\ last'.op = "antenna" => telescope_state' = tel]_vars

\* an antenna notification found the telescope state 'unknown' after on_source
C16_Witness ==
    /\ last.op = "antenna"
    /\ last.prior = "on_source"
    /\ tel = "unknown"
    /\ telescope_state = "unknown"

----------------------------------------------------------------------------
(* C17 *)

\* C17: handling a change to off_source raises nothing, whatever instances
\* daq_states reports as recording, and every reported instance is then
\* unsubscribed and absent from daq_states.
C17_OffSourceNeverRaises ==
    [][TurnedOffSource =>
         /\ ~last'.raised
         /\ pc' = "listen"
         /\ \A i \in Range(last'.recording) :
               i \notin SubscribedInstances' /\ i \notin DOMAIN daq_states']_vars

----------------------------------------------------------------------------
(* C18 *)

\* C18: a notification for a known instance that is handled after the
\* instance was unsubscribed leaves the instance without an entry in
\* daq_states and without a subscription.
C18_StaleNotificationHarmless ==
    [][(/\ last'.op = "instance"
        /\ last'.instance \in Instances
        /\ last'.instance \notin SubscribedInstances
        /\ last'.instance \notin DOMAIN daq_states)
       =>
       (/\ last'.instance \notin DOMAIN daq_states'
        /\ last'.instance \notin SubscribedInstances')]_vars

----------------------------------------------------------------------------
(* C19 *)

\* C19: if the actual telescope state settles on s (and the loop lives),
\* the stored telescope_state eventually is s, also when the last change
\* happened during start-up.
C19_NoLostTelescopeChange ==
    \A s \in TelescopeStates :
        (<>[](tel = s) /\ [](pc # "crashed")) => <>(telescope_state = s)

----------------------------------------------------------------------------
(* C20 *)

\* C20: once the change to off_source has been handled and every pending
\* notification processed, no instance channel is still subscribed.
C20_NoSubscriptionLeak ==
    (pc = "listen" /\ telescope_state = "off_source" /\ queue = <<>>)
        => SubscribedInstances = {}

====
